---- MODULE Spec2Model ----
(***************************************************************************)
(* Steam OpenID 2.0 provider for Auth.js (src/src/SteamNextAuth.ts).       *)
(*                                                                         *)
(* One authentication attempt: SteamProvider(req, options) builds the      *)
(* provider descriptor, token.conform runs verifyAssertion (structural     *)
(* checks, then the check_authentication POST), userinfo.request runs the  *)
(* GetPlayerSummaries GET, profile maps the record.                        *)
(*                                                                         *)
(* The variables hold the attempt that is running; a second attempt made  *)
(* with the same options waits in `parked` and runs when the first awaits. *)
(*                                                                         *)
(* A JavaScript string is a sequence of tokens (each token a fixed piece   *)
(* of text), so that prefix tests, regular expressions and concatenation   *)
(* are computed, not assumed.  string | null | undefined is a set with at  *)
(* most one element.                                                       *)
(***************************************************************************)
EXTENDS Naturals, Sequences, FiniteSets

VARIABLES
    pc,          \* position of the attempt in the flow
    options,     \* SteamProviderOptions: clientSecret, callbackUrl
    req,         \* the inbound Request: hasUrl, params (parsed query entries)
    realm,       \* const realm (set with at most one string)
    returnTo,    \* const returnTo (set with at most one string)
    descriptor,  \* the OAuthConfig returned by SteamProvider (at most one)
    postBody,    \* entries of verifyParams sent as the body of the POST
    postCount,   \* number of POSTs to AUTHORIZATION_URL issued
    verifyResp,  \* what the POST's fetch produced (at most one)
    identifier,  \* value of `identifier` in conform (string | null)
    credential,  \* the JSON of the Response conform returned (at most one)
    lookupReq,   \* query of the GET to GetPlayerSummaries (at most one)
    getCount,    \* number of GETs issued
    lookupResp,  \* what the GET's fetch produced (at most one)
    rawProfile,  \* value returned by userinfo.request (at most one)
    normalized,  \* value returned by profile() (at most one)
    error,       \* message of the Error the attempt ended with (at most one)
    running,     \* which attempt the variables above belong to (1 or 2)
    parked       \* the other attempt's values of them while it waits (at most one)

vars == <<pc, options, req, realm, returnTo, descriptor, postBody, postCount,
          verifyResp, identifier, credential, lookupReq, getCount, lookupResp,
          rawProfile, normalized, error, running, parked>>

(***************************************************************************)
(* Bounds of the model.                                                    *)
(***************************************************************************)
MaxDigits == 2      \* digit tokens after the identity-URL prefix
MaxBodyLen == 4     \* tokens of a re-verification response body
MaxPlayers == 2     \* records in response.players

(***************************************************************************)
(* Optional values and strings.                                            *)
(***************************************************************************)
None == {}
Some(x) == {x}
The(s) == CHOOSE x \in s : TRUE

SeqsUpTo(S, n) == UNION {[1..k -> S] : k \in 0..n}

StartsWith(s, p) == Len(s) >= Len(p) /\ SubSeq(s, 1, Len(p)) = p

(***************************************************************************)
(* src/src/constants/steam.ts                                              *)
(***************************************************************************)
PROVIDER_ID == <<"steam">>
PROVIDER_NAME == <<"Steam">>
EMAIL_DOMAIN == <<"steamcommunity.com">>
AUTHORIZATION_URL == <<"https://steamcommunity.com/openid/login">>

(***************************************************************************)
(* Constants of verifyAssertion.                                           *)
(***************************************************************************)
OPENID_NS == <<"http://specs.openid.net/auth/2.0">>
IDENTIFIER_SELECT == <<"http://specs.openid.net/auth/2.0/identifier_select">>
HttpsIdPrefix == "https://steamcommunity.com/openid/id/"
HttpIdPrefix == "http://steamcommunity.com/openid/id/"
OPENID_CHECK ==
    [ns |-> OPENID_NS, claimed_id |-> <<HttpsIdPrefix>>, identity |-> <<HttpsIdPrefix>>]

Digits == {"7", "76561197960287930"}

\* the pattern without its closing $: the digits captured may be followed by
\* any text
IDENTIFIER_PATTERN_Open(s) ==
    IF Len(s) >= 2 /\ s[1] \in {HttpsIdPrefix, HttpIdPrefix} /\ s[2] \in Digits
    THEN LET n == CHOOSE m \in 2..Len(s) :
                    /\ \A i \in 2..m : s[i] \in Digits
                    /\ m = Len(s) \/ s[m + 1] \notin Digits
         IN  Some(SubSeq(s, 2, n))
    ELSE None

\* IDENTIFIER_PATTERN = /^https?:\/\/steamcommunity\.com\/openid\/id\/(\d+)$/ :
\* the set holding capture group 1, or None when the string does not match.
IDENTIFIER_PATTERN(s) ==
    IF /\ Len(s) >= 2
       /\ s[1] \in {HttpsIdPrefix, HttpIdPrefix}
       /\ \A i \in 2..Len(s) : s[i] \in Digits
    THEN Some(SubSeq(s, 2, Len(s)))
    ELSE None

(***************************************************************************)
(* URLSearchParams: an ordered list of [k, v] entries.                     *)
(***************************************************************************)
Entry(k, v) == [k |-> k, v |-> v]

Has(params, k) == \E i \in 1..Len(params) : params[i].k = k

\* params.get(k): the value of the FIRST entry named k, null when none.
Get(params, k) ==
    IF Has(params, k)
    THEN LET i == CHOOSE j \in 1..Len(params) :
                    /\ params[j].k = k
                    /\ \A h \in 1..(j - 1) : params[h].k # k
         IN  Some(params[i].v)
    ELSE None

\* s || '' for a string | null
OrEmpty(m) == IF m = None \/ m = Some(<<>>) THEN <<>> ELSE The(m)

RECURSIVE DropKey(_, _)
DropKey(params, k) ==
    IF params = <<>> THEN <<>>
    ELSE IF Head(params).k = k THEN DropKey(Tail(params), k)
    ELSE <<Head(params)>> \o DropKey(Tail(params), k)

\* params.set(k, v): the first entry named k takes the value v and the other
\* entries named k are deleted; with no entry named k one is appended.
Set(params, k, v) ==
    IF Has(params, k)
    THEN LET i == CHOOSE j \in 1..Len(params) :
                    /\ params[j].k = k
                    /\ \A h \in 1..(j - 1) : params[h].k # k
         IN  SubSeq(params, 1, i - 1) \o <<Entry(k, v)>>
                 \o DropKey(SubSeq(params, i + 1, Len(params)), k)
    ELSE Append(params, Entry(k, v))

\* The entries of verifyParams when the POST is sent (lines 131-136): every
\* entry of params but openid.mode is set() in order, then openid.mode is set.
RECURSIVE SetAll(_, _)
SetAll(acc, params) ==
    IF params = <<>> THEN acc
    ELSE IF Head(params).k = "openid.mode" THEN SetAll(acc, Tail(params))
    ELSE SetAll(Set(acc, Head(params).k, Head(params).v), Tail(params))

verifyParams(params) ==
    Set(SetAll(<<>>, params), "openid.mode", <<"check_authentication">>)

(***************************************************************************)
(* new URL(options.callbackUrl): a URL string is <<scheme, host>> followed *)
(* by its path tokens; parsing lower-cases scheme and host and gives an    *)
(* empty path the value "/".                                               *)
(***************************************************************************)
Schemes == {"https://", "http://"}
Hosts == {"example.com", "Example.com"}

LowerCase(t) ==
    CASE t = "Example.com" -> "example.com"
      [] t = "Is_Valid" -> "is_valid"
      [] OTHER -> t

UrlParses(u) == Len(u) >= 2 /\ u[1] \in Schemes /\ u[2] \in Hosts
Origin(u) == <<LowerCase(u[1]), LowerCase(u[2])>>
Href(u) == Origin(u) \o (IF Len(u) = 2 THEN <<"/">> ELSE SubSeq(u, 3, Len(u)))

\* `${callbackUrl.href}/${PROVIDER_ID}`
ReturnToOf(u) == Href(u) \o <<"/">> \o PROVIDER_ID

\* the test of the secret that only notices an undefined one
SecretUndefined(secret) == secret = None

\* !options.clientSecret || options.clientSecret.length < 1
SecretMissing(secret) == secret = None \/ Len(The(secret)) < 1

(***************************************************************************)
(* The inputs of an attempt.                                               *)
(***************************************************************************)
ApiKey == <<"STEAM_API_KEY">>
Secrets == {None, Some(<<>>), Some(ApiKey)}

CallbackUrls ==
    { <<"https://", "example.com", "/api/auth/callback">>,
      <<"https://", "Example.com", "/api/auth/callback">>,
      <<"https://", "example.com">>,
      <<"/api/auth/callback">> }

Options == [clientSecret : Secrets, callbackUrl : CallbackUrls]

DigitStrings == SeqsUpTo(Digits, MaxDigits)

\* Values an inbound openid.claimed_id / openid.identity may carry.
ClaimedValues ==
    {<<HttpsIdPrefix>> \o d : d \in DigitStrings}
        \cup {<<HttpsIdPrefix>> \o d \o <<"x">> : d \in SeqsUpTo(Digits, 1)}
        \cup {<<HttpIdPrefix, "7">>, <<"https://evil.example/openid/id/", "7">>, <<>>}
IdentityValues ==
    {<<HttpsIdPrefix, "7">>, <<"https://evil.example/openid/id/", "7">>}

\* The value sets of the other fields: each may be absent (None).
Field(k, values) == {<<>>} \cup {<<Entry(k, v)>> : v \in values}

ExtraEntries ==
    { Entry("openid.claimed_id", <<HttpsIdPrefix, "7">>),
      Entry("openid.claimed_id", <<HttpsIdPrefix, "76561197960287930">>),
      Entry("openid.mode", <<"id_res">>),
      Entry("openid.sig", <<"c2ln">>) }

\* Query entries of a callback for a deployment whose return_to is rt: the
\* fields in the provider's order, each present or absent, and possibly one
\* more entry in front or at the end (a repeated key or a provider extra).
BaseParams(rt) ==
    { ns \o mode \o op \o claimed \o identity \o ret \o <<Entry("openid.sig", <<"c2ln">>)>> :
        ns \in Field("openid.ns", {OPENID_NS, <<"http://specs.openid.net/auth/1.1">>}),
        mode \in Field("openid.mode", {<<"id_res">>}),
        op \in Field("openid.op_endpoint",
                     {AUTHORIZATION_URL, <<"https://evil.example/openid/login">>}),
        claimed \in Field("openid.claimed_id", ClaimedValues),
        identity \in Field("openid.identity", IdentityValues),
        ret \in Field("openid.return_to", {rt, <<"https://evil.example/cb/steam">>}) }

ParamsFor(rt) ==
    BaseParams(rt)
        \cup {<<e>> \o p : e \in ExtraEntries, p \in BaseParams(rt)}
        \cup {Append(p, e) : e \in ExtraEntries, p \in BaseParams(rt)}

Requests(rt) ==
    {[hasUrl |-> FALSE, params |-> <<>>]}
        \cup {[hasUrl |-> TRUE, params |-> p] : p \in ParamsFor(rt)}

\* the checks without the return_to comparison
verifyAssertionChecksNoReturnTo(params, rt) ==
    /\ ~ (\/ Get(params, "openid.op_endpoint") # Some(AUTHORIZATION_URL)
          \/ Get(params, "openid.ns") # Some(OPENID_CHECK.ns))
    /\ StartsWith(OrEmpty(Get(params, "openid.claimed_id")), OPENID_CHECK.claimed_id)
    /\ StartsWith(OrEmpty(Get(params, "openid.identity")), OPENID_CHECK.identity)

(***************************************************************************)
(* verifyAssertion, lines 111-128: the checks made before the POST.        *)
(***************************************************************************)
verifyAssertionChecks(params, rt) ==
    /\ ~ (\/ Get(params, "openid.op_endpoint") # Some(AUTHORIZATION_URL)
          \/ Get(params, "openid.ns") # Some(OPENID_CHECK.ns))
    /\ StartsWith(OrEmpty(Get(params, "openid.claimed_id")), OPENID_CHECK.claimed_id)
    /\ StartsWith(OrEmpty(Get(params, "openid.identity")), OPENID_CHECK.identity)
    /\ ~ (Get(params, "openid.return_to") # Some(rt))

(***************************************************************************)
(* The response of the POST: fetch rejects (threw), or resolves to a       *)
(* Response with resp.ok and a text body.  A body is a sequence of tokens. *)
(***************************************************************************)
BodyTokens == {"is_valid", "Is_Valid", ":", "true", "\n", "x"}
Whitespace == {"\n", " ", "\t"}

FetchThrew == [threw |-> TRUE, ok |-> FALSE, body |-> <<>>]
TextResponse(ok, body) == [threw |-> FALSE, ok |-> ok, body |-> body]

\* the test without the i flag
isValidCaseSensitive(text) ==
    \E i \in 1..Len(text) : \E j \in (i + 1)..Len(text) : \E k \in (j + 1)..Len(text) :
        /\ text[i] = "is_valid"
        /\ \A h \in (i + 1)..(j - 1) : text[h] \in Whitespace
        /\ text[j] = ":"
        /\ \A h \in (j + 1)..(k - 1) : text[h] \in Whitespace
        /\ text[k] = "true"

\* /is_valid\s*:\s*true/i.test(text): unanchored, case-insensitive
isValid(text) ==
    \E i \in 1..Len(text) : \E j \in (i + 1)..Len(text) : \E k \in (j + 1)..Len(text) :
        /\ LowerCase(text[i]) = "is_valid"
        /\ \A h \in (i + 1)..(j - 1) : text[h] \in Whitespace
        /\ text[j] = ":"
        /\ \A h \in (j + 1)..(k - 1) : text[h] \in Whitespace
        /\ LowerCase(text[k]) = "true"

\* verifyAssertionResult without the isValid test
verifyAssertionResultUnconfirmed(claimed, resp) ==
    IF ~ resp.ok THEN None
    ELSE IDENTIFIER_PATTERN(claimed)

\* verifyAssertionResult without the resp.ok test
verifyAssertionResultAnyStatus(claimed, resp) ==
    IF ~ isValid(resp.body) THEN None
    ELSE IDENTIFIER_PATTERN(claimed)

\* verifyAssertion, lines 144-152: the value returned once fetch resolved.
verifyAssertionResult(claimed, resp) ==
    IF ~ resp.ok THEN None
    ELSE IF ~ isValid(resp.body) THEN None
    ELSE IDENTIFIER_PATTERN(claimed)

AllBodies == SeqsUpTo(BodyTokens, MaxBodyLen)
AllVerifyResponses ==
    {FetchThrew} \cup {TextResponse(ok, b) : ok \in BOOLEAN, b \in AllBodies}

SampleBodies ==
    { <<"x", ":", "x", "\n", "is_valid", ":", "true", "\n">>,
      <<"Is_Valid", ":", "true">>,
      <<"x", ":", "x", "\n", "is_valid", ":", "x", "\n">>,
      <<>> }
SampleVerifyResponses ==
    {FetchThrew} \cup {TextResponse(ok, b) : ok \in BOOLEAN, b \in SampleBodies}

(***************************************************************************)
(* The response of the GET: fetch rejects, or resolves to a Response with  *)
(* response.ok whose json() throws or yields a JSON value.                 *)
(***************************************************************************)
JInvalid == [t |-> "invalid"]
JNull == [t |-> "null"]
JUndefined == [t |-> "undefined"]
JObject(field, value) == [t |-> "object", field |-> field, value |-> value]
JArray(items) == [t |-> "array", items |-> items]

Player(steamid, personaname) ==
    [t |-> "object", steamid |-> steamid, personaname |-> personaname,
     avatarfull |-> <<"https://avatars.example/", steamid[1], "_full.jpg">>]
Players ==
    {Player(id, name) : id \in {<<"7">>, <<"76561197960287930">>},
                        name \in {<<"gabe">>, <<"7">>}}

PlayerLists == SeqsUpTo(Players \cup {JNull}, MaxPlayers)
Envelopes ==
    {JInvalid, JNull, JObject("other", JUndefined), JObject("response", JNull),
     JObject("response", JObject("other", JUndefined))}
        \cup {JObject("response", JObject("players", JArray(l))) : l \in PlayerLists}

LookupThrew == [threw |-> TRUE, ok |-> FALSE, data |-> JInvalid]
JsonResponse(ok, data) == [threw |-> FALSE, ok |-> ok, data |-> data]

OnePlayer == JObject("response", JObject("players", JArray(<<Player(<<"7">>, <<"gabe">>)>>)))
AllLookupResponses ==
    {LookupThrew, JsonResponse(FALSE, JNull), JsonResponse(FALSE, OnePlayer)}
        \cup {JsonResponse(TRUE, e) : e \in Envelopes}
SampleLookupResponses ==
    {LookupThrew, JsonResponse(FALSE, OnePlayer), JsonResponse(TRUE, OnePlayer),
     JsonResponse(TRUE, JObject("response", JObject("players", JArray(<<>>))))}

\* v?.name : undefined unless v is an object holding the field
Member(v, name) ==
    IF v.t = "object" /\ v.field = name THEN v.value ELSE JUndefined

\* v?.[0]
First(v) ==
    IF v.t = "array" /\ Len(v.items) >= 1 THEN v.items[1] ELSE JUndefined

Falsy(v) == v.t \in {"undefined", "null"}

\* data?.response?.players?.[0]
FirstPlayer(data) == First(Member(Member(data, "response"), "players"))

\* requestResult without the response.ok test
requestResultAnyStatus(resp) ==
    IF resp.threw THEN None
    ELSE IF resp.data.t = "invalid" THEN None
    ELSE IF Falsy(FirstPlayer(resp.data)) THEN None
    ELSE Some(FirstPlayer(resp.data))

\* userinfo.request, lines 70-77: the record returned, None when it throws
requestResult(resp) ==
    IF resp.threw THEN None
    ELSE IF ~ resp.ok THEN None
    ELSE IF resp.data.t = "invalid" THEN None
    ELSE IF Falsy(FirstPlayer(resp.data)) THEN None
    ELSE Some(FirstPlayer(resp.data))

\* the mapping with id taken from the display name
profileIdFromName(p) ==
    [id |-> p.personaname,
     image |-> p.avatarfull,
     email |-> p.steamid \o <<"@">> \o EMAIL_DOMAIN,
     name |-> p.personaname]

\* profile(profile), lines 83-91
profile(p) ==
    [id |-> p.steamid,
     image |-> p.avatarfull,
     email |-> p.steamid \o <<"@">> \o EMAIL_DOMAIN,
     name |-> p.personaname]

AccessTokens == {<<"c9a3e6f0-uuid">>, <<"1b4e28ba-uuid">>}

(***************************************************************************)
(* The state machine of one attempt.                                       *)
(***************************************************************************)
Constructible(o) == ~ SecretMissing(o.clientSecret) /\ UrlParses(o.callbackUrl)

\* The requests an attempt may be made with: the callback of a deployment
\* carries that deployment's return_to.
RequestsOf(o) ==
    IF Constructible(o)
    THEN Requests(ReturnToOf(o.callbackUrl))
    ELSE {[hasUrl |-> FALSE, params |-> <<>>],
          [hasUrl |-> TRUE, params |-> <<Entry("openid.mode", <<"id_res">>)>>]}

Blank ==
    /\ pc = "start"
    /\ realm = None
    /\ returnTo = None
    /\ descriptor = None
    /\ postBody = None
    /\ postCount = 0
    /\ verifyResp = None
    /\ identifier = None
    /\ credential = None
    /\ lookupReq = None
    /\ getCount = 0
    /\ lookupResp = None
    /\ rawProfile = None
    /\ normalized = None
    /\ error = None
    /\ running = 1

Init ==
    /\ options \in Options
    /\ req \in RequestsOf(options)
    /\ parked = None
    /\ Blank

\* the parameters with the mode of an immediate request
authorizationParamsImmediate(rl, rt) ==
    << Entry("openid.mode", <<"checkid_immediate">>),
       Entry("openid.ns", OPENID_NS),
       Entry("openid.identity", IDENTIFIER_SELECT),
       Entry("openid.claimed_id", IDENTIFIER_SELECT),
       Entry("openid.return_to", rt),
       Entry("openid.realm", rl) >>

\* authorization.params, lines 31-38
authorizationParams(rl, rt) ==
    << Entry("openid.mode", <<"checkid_setup">>),
       Entry("openid.ns", OPENID_NS),
       Entry("openid.identity", IDENTIFIER_SELECT),
       Entry("openid.claimed_id", IDENTIFIER_SELECT),
       Entry("openid.return_to", rt),
       Entry("openid.realm", rl) >>

\* SteamProvider(req, options), lines 6-39
SteamProvider ==
    /\ pc = "start"
    /\ IF SecretMissing(options.clientSecret)
       THEN /\ pc' = "config_error"
            /\ error' = Some("You have forgot to set your Steam API Key")
            /\ UNCHANGED <<realm, returnTo, descriptor>>
       ELSE IF ~ UrlParses(options.callbackUrl)
       THEN /\ pc' = "config_error"
            /\ error' = Some("Invalid URL")
            /\ UNCHANGED <<realm, returnTo, descriptor>>
       ELSE /\ pc' = "ready"
            /\ realm' = Some(Origin(options.callbackUrl))
            /\ returnTo' = Some(ReturnToOf(options.callbackUrl))
            /\ descriptor' =
                 Some([id |-> PROVIDER_ID,
                       clientSecret |-> The(options.clientSecret),
                       url |-> AUTHORIZATION_URL,
                       params |-> authorizationParams(Origin(options.callbackUrl),
                                                      ReturnToOf(options.callbackUrl))])
            /\ UNCHANGED error
    /\ UNCHANGED <<options, running, parked, req, postBody, postCount, verifyResp, identifier,
                   credential, lookupReq, getCount, lookupResp, rawProfile, normalized>>

\* conform that names the failed check in its error
conformDetailed ==
    /\ pc = "ready"
    /\ IF ~ req.hasUrl
       THEN /\ pc' = "token_error"
            /\ error' = Some("No URL found in request object")
            /\ UNCHANGED <<postBody, postCount>>
       ELSE IF ~ verifyAssertionChecks(req.params, The(returnTo))
       THEN /\ pc' = "token_error"
            /\ error' = Some("Malformed assertion")
            /\ UNCHANGED <<postBody, postCount>>
       ELSE /\ pc' = "await_verify"
            /\ postBody' = Some(verifyParams(req.params))
            /\ postCount' = postCount + 1
            /\ UNCHANGED error
    /\ UNCHANGED <<options, running, parked, req, realm, returnTo, descriptor, verifyResp, identifier,
                   credential, lookupReq, getCount, lookupResp, rawProfile, normalized>>

\* token.conform, lines 42-47, with verifyAssertion up to its await fetch
\* (lines 111-143)
conform ==
    /\ pc = "ready"
    /\ IF ~ req.hasUrl
       THEN /\ pc' = "token_error"
            /\ error' = Some("No URL found in request object")
            /\ UNCHANGED <<postBody, postCount>>
       ELSE IF ~ verifyAssertionChecks(req.params, The(returnTo))
       THEN /\ pc' = "token_error"
            /\ error' = Some("Unauthenticated")
            /\ UNCHANGED <<postBody, postCount>>
       ELSE /\ pc' = "await_verify"
            /\ postBody' = Some(verifyParams(req.params))
            /\ postCount' = postCount + 1
            /\ UNCHANGED error
    /\ UNCHANGED <<options, running, parked, req, realm, returnTo, descriptor, verifyResp, identifier,
                   credential, lookupReq, getCount, lookupResp, rawProfile, normalized>>

\* verifyReturns with `claimed` kept in a variable the attempts share: the
\* attempt that ran the checks last, and still awaits its POST, set it
verifyReturnsSharedClaimed(resp) ==
    /\ pc = "await_verify"
    /\ verifyResp' = Some(resp)
    /\ IF resp.threw
       THEN /\ pc' = "token_error"
            /\ error' = Some("fetch failed")
            /\ UNCHANGED <<identifier, credential>>
       ELSE LET owner == IF parked # None /\ The(parked).pc = "await_verify"
                         THEN The(parked).req ELSE req
                claimed == OrEmpty(Get(owner.params, "openid.claimed_id"))
                id == verifyAssertionResult(claimed, resp)
            IN  /\ identifier' = id
                /\ IF id = None \/ id = Some(<<>>)
                   THEN /\ pc' = "token_error"
                        /\ error' = Some("Unauthenticated")
                        /\ UNCHANGED credential
                   ELSE /\ pc' = "token_ok"
                        /\ \E uuid \in AccessTokens :
                             credential' = Some([access_token |-> uuid,
                                                 steamId |-> The(id),
                                                 token_type |-> "Bearer"])
                        /\ UNCHANGED error
    /\ UNCHANGED <<options, running, parked, req, realm, returnTo, descriptor, postBody,
                   postCount, lookupReq, getCount, lookupResp, rawProfile, normalized>>

\* The POST's fetch settles with resp: the rest of verifyAssertion (lines
\* 144-152) and of conform (lines 49-57).
verifyReturns(resp) ==
    /\ pc = "await_verify"
    /\ verifyResp' = Some(resp)
    /\ IF resp.threw
       THEN /\ pc' = "token_error"
            /\ error' = Some("fetch failed")
            /\ UNCHANGED <<identifier, credential>>
       ELSE LET claimed == OrEmpty(Get(req.params, "openid.claimed_id"))
                id == verifyAssertionResult(claimed, resp)
            IN  /\ identifier' = id
                /\ IF id = None \/ id = Some(<<>>)
                   THEN /\ pc' = "token_error"
                        /\ error' = Some("Unauthenticated")
                        /\ UNCHANGED credential
                   ELSE /\ pc' = "token_ok"
                        /\ \E uuid \in AccessTokens :
                             credential' = Some([access_token |-> uuid,
                                                 steamId |-> The(id),
                                                 token_type |-> "Bearer"])
                        /\ UNCHANGED error
    /\ UNCHANGED <<options, running, parked, req, realm, returnTo, descriptor, postBody, postCount,
                   lookupReq, getCount, lookupResp, rawProfile, normalized>>

\* request that asks for the access token instead of the steamId
requestByAccessToken ==
    /\ pc = "token_ok"
    /\ pc' = "await_lookup"
    /\ lookupReq' = Some([key |-> The(descriptor).clientSecret,
                          steamids |-> The(credential).access_token])
    /\ getCount' = getCount + 1
    /\ UNCHANGED <<options, running, parked, req, realm, returnTo, descriptor, postBody, postCount,
                   verifyResp, identifier, credential, lookupResp, rawProfile,
                   normalized, error>>

\* userinfo.request up to its await fetch, lines 63-69; the framework calls it
\* with the tokens conform returned and the provider descriptor
request ==
    /\ pc = "token_ok"
    /\ pc' = "await_lookup"
    /\ lookupReq' = Some([key |-> The(descriptor).clientSecret,
                          steamids |-> The(credential).steamId])
    /\ getCount' = getCount + 1
    /\ UNCHANGED <<options, running, parked, req, realm, returnTo, descriptor, postBody, postCount,
                   verifyResp, identifier, credential, lookupResp, rawProfile,
                   normalized, error>>

\* lookupReturns that issues the GET again when fetch rejects
lookupReturnsRetry(resp) ==
    /\ pc = "await_lookup"
    /\ IF resp.threw
       THEN /\ getCount' = getCount + 1
            /\ UNCHANGED <<pc, lookupResp, rawProfile, error>>
       ELSE /\ lookupResp' = Some(resp)
            /\ rawProfile' = requestResult(resp)
            /\ UNCHANGED getCount
            /\ IF requestResult(resp) = None
               THEN /\ pc' = "userinfo_error"
                    /\ error' = Some("Failed to fetch Steam user info")
               ELSE /\ pc' = "userinfo_ok"
                    /\ UNCHANGED error
    /\ UNCHANGED <<options, running, parked, req, realm, returnTo, descriptor, postBody, postCount,
                   verifyResp, identifier, credential, lookupReq, normalized>>

\* The GET's fetch settles with resp: the rest of userinfo.request, lines 70-80
lookupReturns(resp) ==
    /\ pc = "await_lookup"
    /\ lookupResp' = Some(resp)
    /\ rawProfile' = requestResult(resp)
    /\ IF requestResult(resp) = None
       THEN /\ pc' = "userinfo_error"
            /\ error' = Some("Failed to fetch Steam user info")
       ELSE /\ pc' = "userinfo_ok"
            /\ UNCHANGED error
    /\ UNCHANGED <<options, running, parked, req, realm, returnTo, descriptor, postBody, postCount,
                   verifyResp, identifier, credential, lookupReq, getCount, normalized>>

\* mapProfile that stamps the address with a fresh random value
mapProfileStamped ==
    /\ pc = "userinfo_ok"
    /\ pc' = "done"
    /\ \E uuid \in AccessTokens :
         normalized' = Some([profile(The(rawProfile)) EXCEPT
                                !.email = uuid \o <<"@">> \o EMAIL_DOMAIN])
    /\ UNCHANGED <<options, running, parked, req, realm, returnTo, descriptor, postBody,
                   postCount, verifyResp, identifier, credential, lookupReq, getCount,
                   lookupResp, rawProfile, error>>

\* The framework maps the record userinfo.request returned: profile(), 83-91
mapProfile ==
    /\ pc = "userinfo_ok"
    /\ pc' = "done"
    /\ normalized' = Some(profile(The(rawProfile)))
    /\ UNCHANGED <<options, running, parked, req, realm, returnTo, descriptor, postBody, postCount,
                   verifyResp, identifier, credential, lookupReq, getCount, lookupResp,
                   rawProfile, error>>

VerifyStep == \E resp \in SampleVerifyResponses : verifyReturns(resp)
LookupStep == \E resp \in AllLookupResponses : lookupReturns(resp)

Next ==
    \/ SteamProvider
    \/ conform
    \/ VerifyStep
    \/ request
    \/ LookupStep
    \/ mapProfile

Spec == Init /\ [][Next]_vars

(***************************************************************************)
(* The same flow on one well-formed deployment, every response body of up  *)
(* to MaxBodyLen tokens being answered to the POST.                        *)
(***************************************************************************)
BodyParams(rt) ==
    {<<Entry("openid.ns", OPENID_NS), Entry("openid.mode", <<"id_res">>),
       Entry("openid.op_endpoint", AUTHORIZATION_URL),
       Entry("openid.claimed_id", c), Entry("openid.identity", c),
       Entry("openid.return_to", rt), Entry("openid.sig", <<"c2ln">>)>> :
        c \in {<<HttpsIdPrefix, "76561197960287930">>, <<HttpsIdPrefix, "7", "7">>,
               <<HttpsIdPrefix, "7", "x">>, <<HttpsIdPrefix>>}}

InitBodies ==
    /\ options = [clientSecret |-> Some(ApiKey),
                  callbackUrl |-> <<"https://", "example.com", "/api/auth/callback">>]
    /\ req \in {[hasUrl |-> TRUE, params |-> p] :
                  p \in BodyParams(ReturnToOf(options.callbackUrl))}
    /\ parked = None
    /\ Blank

VerifyStepBodies == \E resp \in AllVerifyResponses : verifyReturns(resp)
LookupStepSample == \E resp \in SampleLookupResponses : lookupReturns(resp)

NextBodies ==
    \/ SteamProvider
    \/ conform
    \/ VerifyStepBodies
    \/ request
    \/ LookupStepSample
    \/ mapProfile

SpecBodies == InitBodies /\ [][NextBodies]_vars

(***************************************************************************)
(* Two attempts made with the same options.  Each call of SteamProvider    *)
(* and of its callbacks keeps its own req, realm, returnTo and locals; the *)
(* event loop runs one attempt at a time and may turn to the other         *)
(* whenever the running one awaits or has returned from a callback.        *)
(***************************************************************************)
Attempt ==
    [pc |-> pc, req |-> req, realm |-> realm, returnTo |-> returnTo,
     descriptor |-> descriptor, postBody |-> postBody, postCount |-> postCount,
     verifyResp |-> verifyResp, identifier |-> identifier, credential |-> credential,
     lookupReq |-> lookupReq, getCount |-> getCount, lookupResp |-> lookupResp,
     rawProfile |-> rawProfile, normalized |-> normalized, error |-> error]

NewAttempt(r) ==
    [pc |-> "start", req |-> r, realm |-> None, returnTo |-> None,
     descriptor |-> None, postBody |-> None, postCount |-> 0,
     verifyResp |-> None, identifier |-> None, credential |-> None,
     lookupReq |-> None, getCount |-> 0, lookupResp |-> None,
     rawProfile |-> None, normalized |-> None, error |-> None]

Switch ==
    /\ parked # None
    /\ parked' = Some(Attempt)
    /\ running' = 3 - running
    /\ pc' = The(parked).pc
    /\ req' = The(parked).req
    /\ realm' = The(parked).realm
    /\ returnTo' = The(parked).returnTo
    /\ descriptor' = The(parked).descriptor
    /\ postBody' = The(parked).postBody
    /\ postCount' = The(parked).postCount
    /\ verifyResp' = The(parked).verifyResp
    /\ identifier' = The(parked).identifier
    /\ credential' = The(parked).credential
    /\ lookupReq' = The(parked).lookupReq
    /\ getCount' = The(parked).getCount
    /\ lookupResp' = The(parked).lookupResp
    /\ rawProfile' = The(parked).rawProfile
    /\ normalized' = The(parked).normalized
    /\ error' = The(parked).error
    /\ UNCHANGED options

PairRequests(rt) == {[hasUrl |-> TRUE, params |-> p] : p \in BodyParams(rt)}

InitPair ==
    /\ options = [clientSecret |-> Some(ApiKey),
                  callbackUrl |-> <<"https://", "example.com", "/api/auth/callback">>]
    /\ req \in PairRequests(ReturnToOf(options.callbackUrl))
    /\ \E r \in PairRequests(ReturnToOf(options.callbackUrl)) : parked = Some(NewAttempt(r))
    /\ Blank

NextPair ==
    \/ SteamProvider
    \/ conform
    \/ VerifyStep
    \/ request
    \/ LookupStepSample
    \/ mapProfile
    \/ Switch

SpecPair == InitPair /\ [][NextPair]_vars

(***************************************************************************)
(* Properties.                                                             *)
(***************************************************************************)
Count(seq, e) == Cardinality({i \in 1..Len(seq) : seq[i] = e})
CountKey(seq, k) == Cardinality({i \in 1..Len(seq) : seq[i].k = k})

\* The first value the callback carries for key k ('' when it carries none).
Inbound(k) == OrEmpty(Get(req.params, k))

\* text has a line (lines end at "\n") made of the key is_valid, in any
\* letter case, a colon and the value true.
HasValidLine(text) ==
    \E a \in 1..Len(text) :
        /\ a = 1 \/ text[a - 1] = "\n"
        /\ a + 2 <= Len(text)
        /\ LowerCase(text[a]) = "is_valid"
        /\ text[a + 1] = ":"
        /\ text[a + 2] = "true"
        /\ a + 2 = Len(text) \/ text[a + 3] = "\n"

\* s is scheme://steamcommunity.com/openid/id/<digits>
IsIdentityUrl(s) ==
    /\ Len(s) >= 2
    /\ s[1] \in {HttpsIdPrefix, HttpIdPrefix}
    /\ \A i \in 2..Len(s) : s[i] \in Digits

Answered == verifyResp # None /\ ~ The(verifyResp).threw

\* C1: an identifier or a credential exists only if a re-verification POST was
\* sent earlier in the attempt and was answered with a success status and a
\* body carrying the validity marker.
C1_IdentifierOnlyAfterConfirmation ==
    (identifier # None \/ credential # None) =>
        /\ postCount >= 1
        /\ postBody # None
        /\ Answered
        /\ The(verifyResp).ok
        /\ isValid(The(verifyResp).body)

C1_Witness ==
    /\ pc = "token_ok"
    /\ identifier # None
    /\ credential # None
    /\ postCount = 1

\* At least one of the five structural checks fails on the callback.
FailsACheck ==
    \/ Get(req.params, "openid.op_endpoint") # Some(AUTHORIZATION_URL)
    \/ Get(req.params, "openid.ns") # Some(OPENID_NS)
    \/ ~ StartsWith(Inbound("openid.claimed_id"), <<HttpsIdPrefix>>)
    \/ ~ StartsWith(Inbound("openid.identity"), <<HttpsIdPrefix>>)
    \/ Get(req.params, "openid.return_to") # Some(ReturnToOf(options.callbackUrl))

\* C2: a callback that fails a structural check never yields an identifier or
\* a credential, and no network call is made during the attempt.
C2_StructuralFailureNoNetwork ==
    (Constructible(options) /\ req.hasUrl /\ FailsACheck) =>
        /\ identifier = None
        /\ credential = None
        /\ postCount = 0
        /\ getCount = 0
        /\ pc \in {"start", "ready", "token_error"}

C2_Witness ==
    /\ pc = "token_error"
    /\ req.hasUrl
    /\ Get(req.params, "openid.op_endpoint") = Some(AUTHORIZATION_URL)
    /\ Get(req.params, "openid.ns") = Some(OPENID_NS)
    /\ IsIdentityUrl(Inbound("openid.claimed_id"))
    /\ StartsWith(Inbound("openid.identity"), <<HttpsIdPrefix>>)
    /\ Get(req.params, "openid.return_to") = Some(<<"https://evil.example/cb/steam">>)
    /\ postCount = 0

\* C3 as stated: once the POST is answered with a body holding an
\* is_valid:true line and the claimed identifier is an identity URL,
\* verification has yielded the digits of the claimed identifier.
C3_AsStated ==
    (/\ Answered
     /\ HasValidLine(The(verifyResp).body)
     /\ IsIdentityUrl(Inbound("openid.claimed_id"))) =>
        /\ identifier = Some(Tail(Inbound("openid.claimed_id")))
        /\ pc # "token_error"

\* C3 amended: the same, for an answer with a success status.
C3_ValidLineYieldsDigits ==
    (/\ Answered
     /\ The(verifyResp).ok
     /\ HasValidLine(The(verifyResp).body)
     /\ IsIdentityUrl(Inbound("openid.claimed_id"))) =>
        /\ identifier = Some(Tail(Inbound("openid.claimed_id")))
        /\ pc # "token_error"
        /\ credential # None
        /\ The(credential).steamId = Tail(Inbound("openid.claimed_id"))

C3_Witness ==
    /\ Answered
    /\ The(verifyResp).ok
    /\ The(verifyResp).body = <<"Is_Valid", ":", "true">>
    /\ Inbound("openid.claimed_id") = <<HttpsIdPrefix, "76561197960287930">>
    /\ identifier = Some(<<"76561197960287930">>)

\* C4 as stated: verification succeeds only if the answer's body has a line
\* whose key is is_valid and whose value is true.
C4_AsStated ==
    identifier # None => (Answered /\ HasValidLine(The(verifyResp).body))

\* C5 as stated: the normalized profile carries the verified identifier as id
\* and <identifier>@steamcommunity.com as email.
C5_AsStated ==
    normalized # None =>
        /\ The(normalized).id = The(identifier)
        /\ The(normalized).email = The(identifier) \o <<"@", "steamcommunity.com">>

\* C5 amended: the normalized profile carries the steamid of the record the
\* lookup returned as id, and <steamid>@steamcommunity.com as email, whatever
\* the other fields; they are the verified identifier's when the record's
\* steamid is the verified identifier.
C5_IdIsRecordSteamid ==
    normalized # None =>
        /\ The(normalized).id = The(rawProfile).steamid
        /\ The(normalized).email = The(rawProfile).steamid \o <<"@", "steamcommunity.com">>
        /\ The(rawProfile).steamid = The(identifier) =>
               /\ The(normalized).id = The(identifier)
               /\ The(normalized).email = The(identifier) \o <<"@", "steamcommunity.com">>

C5_Witness ==
    /\ pc = "done"
    /\ The(rawProfile).steamid = The(identifier)
    /\ The(rawProfile).personaname # The(rawProfile).steamid
    /\ The(normalized).id = <<"76561197960287930">>

\* C6: when the POST's fetch rejects or answers a non-success status, no
\* identifier is extracted, no credential is issued, the attempt has failed
\* and exactly one POST was sent.
C6_TransportFailureUnauthenticated ==
    (verifyResp # None /\ (The(verifyResp).threw \/ ~ The(verifyResp).ok)) =>
        /\ identifier = None
        /\ credential = None
        /\ pc = "token_error"
        /\ error # None
        /\ postCount = 1
        /\ getCount = 0

C6_Witness ==
    /\ verifyResp = Some(TextResponse(FALSE, <<"Is_Valid", ":", "true">>))
    /\ IsIdentityUrl(Inbound("openid.claimed_id"))
    /\ pc = "token_error"

\* C7 as stated: the body of the POST holds every inbound entry but the
\* openid.mode ones, each as often as inbound and with its value, and
\* openid.mode exactly once with the value check_authentication.
C7_AsStated ==
    postBody # None =>
        LET body == The(postBody)
            mode == Entry("openid.mode", <<"check_authentication">>)
        IN  /\ \A i \in 1..Len(req.params) :
                 req.params[i].k # "openid.mode" =>
                     Count(body, req.params[i]) = Count(req.params, req.params[i])
            /\ \A i \in 1..Len(body) :
                 body[i].k # "openid.mode" => Count(req.params, body[i]) >= 1
            /\ CountKey(body, "openid.mode") = 1
            /\ Count(body, mode) = 1

\* C8: at most one POST and one GET are issued; the GET only after
\* verification succeeded; a rejected fetch ends the attempt in failure.
C8_OneCallEachNoRetry ==
    /\ postCount <= 1
    /\ getCount <= 1
    /\ getCount >= 1 =>
           /\ identifier # None
           /\ credential # None
           /\ Answered
           /\ lookupReq # None
           /\ The(lookupReq).steamids = The(identifier)
    /\ (verifyResp # None /\ The(verifyResp).threw) =>
           pc = "token_error" /\ postCount = 1 /\ getCount = 0
    /\ (lookupResp # None /\ The(lookupResp).threw) =>
           pc = "userinfo_error" /\ getCount = 1 /\ normalized = None
    /\ pc = "await_lookup" => getCount = 1

C8_Witness ==
    /\ lookupResp = Some(LookupThrew)
    /\ pc = "userinfo_error"
    /\ postCount = 1
    /\ getCount = 1

\* C9: with a missing or empty API secret construction fails: no descriptor
\* is returned and no network call is made, whatever the callback URL.
C9_EmptySecretFails ==
    (pc # "start" /\ options.clientSecret \in {None, Some(<<>>)}) =>
        /\ pc = "config_error"
        /\ error # None
        /\ descriptor = None
        /\ postCount = 0
        /\ getCount = 0

C9_Witness ==
    /\ pc = "config_error"
    /\ options.clientSecret = Some(<<>>)
    /\ UrlParses(options.callbackUrl)

\* The envelope's record list, <<>> when the envelope has none.
RecordList(data) ==
    IF /\ data.t = "object"
       /\ data.field = "response"
       /\ data.value.t = "object"
       /\ data.value.field = "players"
       /\ data.value.value.t = "array"
    THEN data.value.value.items
    ELSE <<>>

\* C10 as stated: the resolver succeeds only when the record list holds
\* exactly one record.
C10_AsStated ==
    rawProfile # None => Len(RecordList(The(lookupResp).data)) = 1

\* C10 amended: on a success status the resolver succeeds exactly when the
\* record list holds a record at its first position (one record or more, the
\* first being returned); otherwise, and on a rejected fetch or a non-success
\* status, it fails: no profile, and the one GET is not repeated.
C10_SucceedsIffFirstRecord ==
    lookupResp # None =>
        LET resp == The(lookupResp)
            list == RecordList(resp.data)
            found == /\ ~ resp.threw
                     /\ resp.ok
                     /\ Len(list) >= 1
                     /\ list[1].t = "object"
        IN  /\ getCount = 1
            /\ found => rawProfile = Some(list[1]) /\ pc \in {"userinfo_ok", "done"}
            /\ ~ found => /\ rawProfile = None
                          /\ normalized = None
                          /\ pc = "userinfo_error"
                          /\ error # None

C10_Witness ==
    /\ lookupResp # None
    /\ The(lookupResp).ok
    /\ Len(RecordList(The(lookupResp).data)) = 2
    /\ rawProfile = Some(RecordList(The(lookupResp).data)[1])
    /\ pc = "done"

\* The value of key k in the authorization request's parameters.
AuthParam(k) == Get(The(descriptor).params, k)

EndsWith(s, p) == Len(s) >= Len(p) /\ SubSeq(s, Len(s) - Len(p) + 1, Len(s)) = p

\* C11 as stated: for a callbackUrl that parses, returnTo begins with
\* callbackUrl as supplied and ends with /steam, realm is callbackUrl's
\* origin, and that returnTo is the openid.return_to of the authorization
\* request and the one required of the callback.
C11_AsStated ==
    descriptor # None =>
        /\ StartsWith(The(returnTo), options.callbackUrl)
        /\ EndsWith(The(returnTo), <<"/", "steam">>)
        /\ realm = Some(<<LowerCase(options.callbackUrl[1]), LowerCase(options.callbackUrl[2])>>)
        /\ AuthParam("openid.return_to") = returnTo
        /\ postCount >= 1 => Get(req.params, "openid.return_to") = returnTo

\* C15: a descriptor is built without any network call and carries exactly
\* the six authorization parameters; with a non-empty secret construction
\* fails exactly when callbackUrl does not parse as an absolute URL.
C15_AuthorizationRequest ==
    /\ descriptor # None =>
           /\ The(descriptor).url = <<"https://steamcommunity.com/openid/login">>
           /\ {The(descriptor).params[i] : i \in 1..Len(The(descriptor).params)} =
                  { Entry("openid.ns", <<"http://specs.openid.net/auth/2.0">>),
                    Entry("openid.identity",
                          <<"http://specs.openid.net/auth/2.0/identifier_select">>),
                    Entry("openid.claimed_id",
                          <<"http://specs.openid.net/auth/2.0/identifier_select">>),
                    Entry("openid.return_to", The(returnTo)),
                    Entry("openid.realm", The(realm)),
                    Entry("openid.mode", <<"checkid_setup">>) }
           /\ Len(The(descriptor).params) = 6
    /\ pc = "ready" => descriptor # None /\ postCount = 0 /\ getCount = 0
    /\ (pc # "start" /\ options.clientSecret \notin {None, Some(<<>>)}) =>
           (pc = "config_error" <=> ~ (/\ Len(options.callbackUrl) >= 2
                                       /\ options.callbackUrl[1] \in {"https://", "http://"}))

C15_Witness ==
    /\ pc = "ready"
    /\ descriptor # None
    /\ options.callbackUrl = <<"https://", "example.com">>
    /\ AuthParam("openid.return_to") = Some(<<"https://", "example.com", "/", "/", "steam">>)

C15_WitnessUnparsable ==
    /\ pc = "config_error"
    /\ options.clientSecret = Some(ApiKey)

\* What the caller of the token-exchange step observes.
TokenOutcome == [error |-> error, credential |-> credential]

\* The attempt was rejected by the structural checks.
RejectedLocally == pc = "token_error" /\ req.hasUrl /\ FailsACheck

\* The attempt passed the structural checks and the provider's answer did not
\* confirm the assertion.
RejectedByProvider ==
    /\ pc = "token_error"
    /\ Answered
    /\ ~ The(verifyResp).ok \/ ~ isValid(The(verifyResp).body)

\* C12: an assertion rejected by the structural checks and one the provider
\* declined to confirm surface the same outcome: the error Unauthenticated
\* and no credential.
C12_RejectionsIndistinguishable ==
    (RejectedLocally \/ RejectedByProvider) =>
        TokenOutcome = [error |-> Some("Unauthenticated"), credential |-> None]

C12_WitnessLocal == RejectedLocally /\ error = Some("Unauthenticated")

C12_WitnessProvider ==
    /\ RejectedByProvider
    /\ The(verifyResp).ok
    /\ IsIdentityUrl(Inbound("openid.claimed_id"))
    /\ error = Some("Unauthenticated")

\* C16 as stated: the values the structural checks and the extraction read
\* are the values the confirmed body carries for the same keys, and the
\* identifier yielded is the one in the body's claimed_id.
C16_AsStated ==
    postBody # None =>
        /\ \A k \in {"openid.claimed_id", "openid.op_endpoint", "openid.ns",
                     "openid.identity", "openid.return_to"} :
               Get(The(postBody), k) = Get(req.params, k)
        /\ identifier # None =>
               Get(The(postBody), "openid.claimed_id")
                   = Some(<<HttpsIdPrefix>> \o The(identifier))

\* C17: an identifier yielded is a non-empty string of digits, and a
\* confirmed assertion whose claimed identifier is not, in full, an identity
\* URL is unauthenticated.
C17_IdentifierIsDigits ==
    /\ identifier # None =>
           /\ Len(The(identifier)) >= 1
           /\ \A i \in 1..Len(The(identifier)) : The(identifier)[i] \in {"7", "76561197960287930"}
    /\ (/\ Answered
        /\ The(verifyResp).ok
        /\ isValid(The(verifyResp).body)
        /\ ~ IsIdentityUrl(Inbound("openid.claimed_id"))) =>
           /\ identifier = None
           /\ credential = None
           /\ pc = "token_error"

C17_Witness ==
    /\ Answered
    /\ The(verifyResp).ok
    /\ isValid(The(verifyResp).body)
    /\ Inbound("openid.claimed_id") = <<HttpsIdPrefix, "7", "x">>
    /\ pc = "token_error"

C17_WitnessNoDigits ==
    /\ Answered
    /\ The(verifyResp).ok
    /\ isValid(The(verifyResp).body)
    /\ Inbound("openid.claimed_id") = <<HttpsIdPrefix>>
    /\ pc = "token_error"

\* C18: a credential exists exactly when verification yielded an identifier
\* and carries that identifier; the lookup is issued for that identifier;
\* a failed verification or a request without URL raises an error and
\* yields no credential.
C18_CredentialIffVerified ==
    /\ credential # None <=> identifier # None
    /\ credential # None =>
           /\ The(credential).steamId = The(identifier)
           /\ The(credential).token_type = "Bearer"
           /\ pc \notin {"token_error", "config_error"}
    /\ lookupReq # None =>
           /\ The(lookupReq).steamids = The(identifier)
           /\ The(lookupReq).key = The(options.clientSecret)
    /\ pc = "token_error" => error # None /\ credential = None /\ getCount = 0
    /\ (~ req.hasUrl /\ pc \notin {"start", "ready", "config_error"}) =>
           /\ pc = "token_error"
           /\ error = Some("No URL found in request object")
           /\ postCount = 0

C18_Witness ==
    /\ lookupReq # None
    /\ The(lookupReq).steamids = <<"76561197960287930">>
    /\ The(credential).steamId = <<"76561197960287930">>

C18_WitnessNoUrl == ~ req.hasUrl /\ pc = "token_error"

\* What attempt a holds is what its own request and the answers to its own
\* calls determine.
OwnOutcome(a) ==
    /\ a.returnTo \in {None, Some(ReturnToOf(options.callbackUrl))}
    /\ a.postBody \in {None, Some(verifyParams(a.req.params))}
    /\ a.postCount = (IF a.postBody = None THEN 0 ELSE 1)
    /\ a.identifier =
           (IF a.verifyResp = None \/ The(a.verifyResp).threw
            THEN None
            ELSE verifyAssertionResult(OrEmpty(Get(a.req.params, "openid.claimed_id")),
                                       The(a.verifyResp)))
    /\ a.verifyResp # None => (a.credential # None <=> a.identifier # None)
    /\ a.credential # None => The(a.credential).steamId = The(a.identifier)
    /\ a.lookupReq # None => The(a.lookupReq).steamids = The(a.identifier)
    /\ a.rawProfile =
           (IF a.lookupResp = None THEN None ELSE requestResult(The(a.lookupResp)))
    /\ a.normalized # None => a.normalized = Some(profile(The(a.rawProfile)))
    /\ a.pc \in {"token_error", "userinfo_error", "config_error"} <=> a.error # None

\* C13: in every interleaving of two attempts made with the same options each
\* attempt's outcome is determined by its own request and answers, a step of
\* one attempt leaves the other's data alone, and the options never change.
C13_AttemptsIndependent ==
    /\ [](OwnOutcome(Attempt) /\ (parked # None => OwnOutcome(The(parked))))
    /\ [][/\ options' = options
          /\ running' = running => parked' = parked
          /\ running' # running => parked' = Some(Attempt) /\ Attempt' = The(parked)]_vars

C13_Witness ==
    /\ parked # None
    /\ running = 2
    /\ pc = "await_verify"
    /\ The(parked).pc = "await_lookup"
    /\ The(parked).identifier = Some(<<"76561197960287930">>)
    /\ Inbound("openid.claimed_id") = <<HttpsIdPrefix, "7", "x">>

\* C14: two runs of the lookup and the mapping for the same identifier that
\* are answered the same record yield the same normalized profile.
C14_ResolverIdempotent ==
    (/\ parked # None
     /\ lookupReq # None
     /\ lookupReq = The(parked).lookupReq
     /\ lookupResp # None
     /\ lookupResp = The(parked).lookupResp) =>
        /\ rawProfile = The(parked).rawProfile
        /\ (pc = "done" /\ The(parked).pc = "done") =>
               normalized # None /\ normalized = The(parked).normalized

C14_Witness ==
    /\ parked # None
    /\ pc = "done"
    /\ The(parked).pc = "done"
    /\ lookupReq = The(parked).lookupReq
    /\ lookupResp = The(parked).lookupResp
    /\ credential # The(parked).credential
    /\ normalized = The(parked).normalized

====
